---- MODULE Spec2Model ----
(***************************************************************************)
(* A model of the VCHASNO analytics pair: the Lambda handler of the        *)
(* /analyze endpoint (lambda_handler.py) and the command-line client       *)
(* (analyze_cli.py).                                                       *)
(*                                                                         *)
(* Three specifications share the module:                                  *)
(*   Spec     one invocation of lambda_handler, from the event to the      *)
(*            response (or to the exception that leaves the handler);      *)
(*   SpecIds  NumCalls concurrent invocations of analyze_document that     *)
(*            read one wall clock, projected on the analysis_id;           *)
(*   SpecCLI  one run of the client's main().                              *)
(*                                                                         *)
(* Strings the program computes are sequences of symbols; a literal piece  *)
(* of a format string that no claim looks into is one symbol.  The wall    *)
(* clock counts ticks, TicksPerSecond of them to the second, and stays     *)
(* within the first minute of the epoch.                                   *)
(***************************************************************************)
EXTENDS Integers, Sequences, FiniteSets, TLC

VARIABLES
    now,              \* the wall clock (datetime.utcnow()), in ticks
    \* ---- lambda_handler: one invocation
    event,            \* the event the handler was invoked with
    pc,               \* the handler's position
    document_id,      \* locals of lambda_handler
    document_type,
    source,
    start_time,       \* analyze_document's local
    analysis_result,
    result_key,
    s3,               \* s3.put_object calls that succeeded, in order
    cloudwatch,       \* cloudwatch.put_metric_data calls that succeeded
    response,         \* what lambda_handler returned
    stages,           \* history: the stages the invocation went through
    calls,            \* history: how often each collaborator was invoked
    failed,           \* history: the collaborators that raised
    \* ---- concurrent analyze_document calls
    cpc, cdoc, cstart, cid,
    \* ---- the client
    args, mpc, todo, results, posts, gets, outcomes, stdout, stderr,
    exit_code, ran

handlerVars == <<event, pc, document_id, document_type, source, start_time,
                 analysis_result, result_key, s3, cloudwatch, response,
                 stages, calls, failed>>
idVars == <<cpc, cdoc, cstart, cid>>
cliVars == <<args, mpc, todo, results, posts, gets, outcomes, stdout, stderr,
             exit_code, ran>>
vars == <<now, handlerVars, idVars, cliVars>>

(***************************************************************************)
(* Bounds of the model.                                                    *)
(***************************************************************************)
MaxClock == 3
TicksPerSecond == 2
Grid == 1
NumCalls == 2
MaxBatch == 3

(***************************************************************************)
(* Values and strings.                                                     *)
(***************************************************************************)
None == [t |-> "None"]
Absent == [t |-> "absent"]
Str(s) == [t |-> "str", s |-> s]

Dict(items) == [t |-> "dict", items |-> items]

\* Python truthiness: None, "" and {} are falsy.
Truthy(v) ==
    CASE v.t = "str" -> v.s # <<>>
      [] v.t = "dict" -> v.items # {}
      [] OTHER -> FALSE

\* What an f-string puts for a value.
Format(v) == IF v.t = "str" THEN v.s ELSE <<"N", "o", "n", "e">>

Digits == <<"0", "1", "2", "3", "4", "5", "6", "7", "8", "9">>

RECURSIVE IntToStr(_)
IntToStr(n) ==
    IF n < 10 THEN <<Digits[n + 1]>>
    ELSE IntToStr(n \div 10) \o <<Digits[(n % 10) + 1]>>

Contains(sub, s) ==
    \E i \in 0..(Len(s) - Len(sub)) : SubSeq(s, i + 1, i + Len(sub)) = sub

\* datetime.isoformat(): the fraction is printed only when it is not zero.
isoformat(t) ==
    LET sec == t \div TicksPerSecond
        frac == t % TicksPerSecond
    IN  <<"1970-01-01T00:00:">> \o <<Digits[(sec \div 10) + 1], Digits[(sec % 10) + 1]>>
        \o (IF frac = 0 THEN <<>> ELSE <<".">> \o IntToStr(frac))

\* int(datetime.timestamp()): whole seconds since the epoch.
timestamp_int(t) == t \div TicksPerSecond

\* random.uniform(a, b) and random.randint(a, b): a + (b - a) * u for the
\* fractions u = k / Grid the model draws; both ends of the range are drawn.
uniform(a, b) == {a + ((b - a) * k) \div Grid : k \in 0..Grid}
randint(a, b) == {a + ((b - a) * k) \div Grid : k \in 0..Grid}
choice(list) == {list[k] : k \in 1..Len(list)}

(***************************************************************************)
(* lambda_handler.py                                                       *)
(***************************************************************************)
RESULTS_BUCKET == <<"vchasno-analysis-results">>
METRICS_NAMESPACE == "VCHASNO/Analytics"

DocIds == {<<"a">>, <<"a", "-", "1">>}

EmptyObject == [document_id |-> Absent, document_type |-> Absent, source |-> Absent]

\* The JSON objects a request body may hold.
Bodies ==
    {EmptyObject,
     [EmptyObject EXCEPT !.document_type = Str(<<"contract">>)],
     [EmptyObject EXCEPT !.document_id = Str(<<>>)],
     [EmptyObject EXCEPT !.document_id = None]}
    \cup {[EmptyObject EXCEPT !.document_id = Str(d)] : d \in DocIds}
    \cup {[document_id |-> Str(d), document_type |-> Str(<<"compliance">>),
           source |-> Str(<<"cli">>)] : d \in DocIds}

\* The events: no 'body' key, a body that is a JSON object, and the bodies
\* json.loads or body.get raise on (null, malformed text, a JSON array).
Events ==
    {[kind |-> "absent", object |-> EmptyObject]}
    \cup {[kind |-> "object", object |-> b] : b \in Bodies}
    \cup {[kind |-> k, object |-> EmptyObject] : k \in {"null", "malformed", "array"}}

\* body = json.loads(event.get('body', '{}')), then the first body.get.
json_loads(ev) ==
    CASE ev.kind = "absent" -> [raised |-> FALSE, body |-> EmptyObject]
      [] ev.kind = "object" -> [raised |-> FALSE, body |-> ev.object]
      [] OTHER -> [raised |-> TRUE, body |-> EmptyObject]

\* dict.get(key) and dict.get(key, default)
get(body, key, default) ==
    IF body[key] = Absent THEN default ELSE body[key]

\* The check written as `document_id is None`: an empty id passes.
MissingDocumentId_mut(doc) == doc = None

\* if not document_id
MissingDocumentId(doc) == ~Truthy(doc)

AnalysisId(doc, t) ==
    <<"A", "N", "-">> \o Format(doc) \o <<"-">> \o IntToStr(timestamp_int(t))

\* The p50 range drawn up to 0.5 s, past the start of the p95 range.
Metrics_mut ==
    [docs_per_hour : randint(500, 2000),
     docs_per_day : randint(10000, 45000),
     latency_p50 : uniform(100, 500),
     latency_p95 : uniform(400, 800),
     latency_p99 : uniform(900, 1500)]

Metrics ==
    [docs_per_hour : randint(500, 2000),
     docs_per_day : randint(10000, 45000),
     latency_p50 : uniform(100, 300),
     latency_p95 : uniform(400, 800),
     latency_p99 : uniform(900, 1500)]

\* The results analyze_document may return for a call that read start_time
\* at tick `start` and the clock again, after the sleep, at tick `t`.
\* Latencies are in milliseconds.
analyze_document(doc, type, start, t) ==
    {[analysis_id |-> AnalysisId(doc, t),
      document_id |-> doc,
      document_type |-> type,
      timestamp |-> isoformat(start),
      compliance_score |-> c,
      validation_passed |-> v,
      metrics |-> m,
      key_findings |-> <<"Document structure compliant",
                         "All required fields present",
                         "Signatures valid">>] :
        c \in uniform(85, 99),
        v \in choice(<<TRUE, TRUE, TRUE, FALSE>>),
        m \in Metrics}

ResultKey(doc, t) ==
    <<"analysis/">> \o Format(doc) \o <<"/">> \o isoformat(t) \o <<".json">>

\* The location built without the separator between bucket and key.
ResultLocation_mut(key) == <<"s3://">> \o RESULTS_BUCKET \o key

ResultLocation(key) == <<"s3://">> \o RESULTS_BUCKET \o <<"/">> \o key

ResponseBody(doc, result, key) ==
    [document_id |-> doc,
     analysis_id |-> result.analysis_id,
     status |-> "completed",
     result_location |-> ResultLocation(key),
     metrics |-> [generation_rate |-> result.metrics.docs_per_hour,
                  latency_p50 |-> result.metrics.latency_p50,
                  latency_p95 |-> result.metrics.latency_p95,
                  latency_p99 |-> result.metrics.latency_p99]]

\* send_metrics wraps its emission in try: a failure of cloudwatch inside it
\* is logged and does not reach lambda_handler.
send_metrics_raises(cwFails) == FALSE

\* str(e) of the exception the except branch caught.
ExceptionText ==
    IF "storage" \in failed THEN "put_object failed"
    ELSE IF "analysis" \in failed THEN "analysis failed"
    ELSE "bad request body"

NoCalls == [analyze |-> 0, put_object |-> 0, send_metrics |-> 0, error_metric |-> 0]

HandlerInit ==
    /\ event \in Events
    /\ pc = "Received"
    /\ document_id = None
    /\ document_type = None
    /\ source = None
    /\ start_time = 0
    /\ analysis_result = None
    /\ result_key = <<>>
    /\ s3 = <<>>
    /\ cloudwatch = <<>>
    /\ response = None
    /\ stages = <<"Received">>
    /\ calls = NoCalls
    /\ failed = {}

Tick ==
    /\ now < MaxClock
    /\ now' = now + 1
    /\ UNCHANGED <<handlerVars, idVars, cliVars>>

\* lines 31-48: parse the body, read the parameters, reject a missing id.
ParseRequest ==
    /\ pc = "Received"
    /\ LET parsed == json_loads(event)
           doc == get(parsed.body, "document_id", None)
       IN  IF parsed.raised
           THEN /\ pc' = "Except"
                /\ UNCHANGED <<document_id, document_type, source, response, stages>>
           ELSE /\ document_id' = doc
                /\ document_type' = get(parsed.body, "document_type", Str(<<"contract">>))
                /\ source' = get(parsed.body, "source", Str(<<"unknown">>))
                /\ IF MissingDocumentId(doc)
                   THEN /\ response' = [statusCode |-> 400,
                                        body |-> [error |-> "document_id is required"]]
                        /\ stages' = Append(stages, "Rejected")
                        /\ pc' = "Done"
                   ELSE /\ stages' = Append(stages, "Validated")
                        /\ pc' = "Validated"
                        /\ UNCHANGED response
    /\ UNCHANGED <<now, event, start_time, analysis_result, result_key, s3,
                   cloudwatch, calls, failed, idVars, cliVars>>

\* line 51 and line 120: the call, and start_time = datetime.utcnow().
AnalyzeCall ==
    /\ pc = "Validated"
    /\ start_time' = now
    /\ calls' = [calls EXCEPT !.analyze = @ + 1]
    /\ pc' = "Analyzing"
    /\ UNCHANGED <<now, event, document_id, document_type, source,
                   analysis_result, result_key, s3, cloudwatch, response,
                   stages, failed, idVars, cliVars>>

\* lines 126-152: after the sleep, the id and the drawn values.
AnalyzeReturn ==
    /\ pc = "Analyzing"
    /\ \E r \in analyze_document(document_id, document_type, start_time, now) :
          analysis_result' = r
    /\ stages' = Append(stages, "Analyzed")
    /\ pc' = "Analyzed"
    /\ UNCHANGED <<now, event, document_id, document_type, source, start_time,
                   result_key, s3, cloudwatch, response, calls, failed,
                   idVars, cliVars>>

\* The analysis step raises: the exception reaches the handler's except.
AnalyzeRaise ==
    /\ pc = "Analyzing"
    /\ failed' = failed \cup {"analysis"}
    /\ pc' = "Except"
    /\ UNCHANGED <<now, event, document_id, document_type, source, start_time,
                   analysis_result, result_key, s3, cloudwatch, response,
                   stages, calls, idVars, cliVars>>

\* lines 54-60: the key, and s3.put_object, which stores or raises.
PutObject ==
    /\ pc = "Analyzed"
    /\ result_key' = ResultKey(document_id, now)
    /\ calls' = [calls EXCEPT !.put_object = @ + 1]
    /\ \E ok \in BOOLEAN :
          IF ok
          THEN /\ s3' = Append(s3, [Bucket |-> RESULTS_BUCKET,
                                    Key |-> result_key',
                                    Body |-> analysis_result,
                                    ContentType |-> "application/json"])
               /\ stages' = Append(stages, "Persisted")
               /\ pc' = "Persisted"
               /\ UNCHANGED failed
          ELSE /\ failed' = failed \cup {"storage"}
               /\ pc' = "Except"
               /\ UNCHANGED <<s3, stages>>
    /\ UNCHANGED <<now, event, document_id, document_type, source, start_time,
                   analysis_result, cloudwatch, response, idVars, cliVars>>

\* line 63 and lines 155-160: send_metrics, whose cloudwatch call may fail.
SendMetrics ==
    /\ pc = "Persisted"
    /\ calls' = [calls EXCEPT !.send_metrics = @ + 1]
    /\ \E cwFails \in BOOLEAN :
          /\ cloudwatch' = IF cwFails THEN cloudwatch
                           ELSE Append(cloudwatch,
                                       [Namespace |-> METRICS_NAMESPACE,
                                        by |-> "send_metrics",
                                        document_type |-> document_type])
          /\ failed' = IF cwFails THEN failed \cup {"metrics"} ELSE failed
          /\ IF cwFails /\ send_metrics_raises(cwFails)
             THEN /\ pc' = "Except"
                  /\ UNCHANGED stages
             ELSE /\ stages' = Append(stages, "MetricsEmitted")
                  /\ pc' = "MetricsEmitted"
    /\ UNCHANGED <<now, event, document_id, document_type, source, start_time,
                   analysis_result, result_key, s3, response, idVars, cliVars>>

\* lines 66-88: the success response.
Respond ==
    /\ pc = "MetricsEmitted"
    /\ response' = [statusCode |-> 200,
                    body |-> ResponseBody(document_id, analysis_result, result_key)]
    /\ stages' = Append(stages, "Responded")
    /\ pc' = "Done"
    /\ UNCHANGED <<now, event, document_id, document_type, source, start_time,
                   analysis_result, result_key, s3, cloudwatch, calls, failed,
                   idVars, cliVars>>

\* lines 90-115: the except branch emits AnalysisErrors, unguarded, and then
\* returns 500; when the emission raises, the exception leaves the handler.
ErrorPath ==
    /\ pc = "Except"
    /\ calls' = [calls EXCEPT !.error_metric = @ + 1]
    /\ \E cwFails \in BOOLEAN :
          IF cwFails
          THEN /\ failed' = failed \cup {"error_metric"}
               /\ pc' = "Raised"
               /\ UNCHANGED <<cloudwatch, response, stages>>
          ELSE /\ cloudwatch' = Append(cloudwatch,
                                       [Namespace |-> METRICS_NAMESPACE,
                                        by |-> "AnalysisErrors",
                                        document_type |-> None])
               /\ response' = [statusCode |-> 500,
                               body |-> [error |-> "Internal server error",
                                         message |-> ExceptionText]]
               /\ stages' = Append(stages, "Failed")
               /\ pc' = "Done"
               /\ UNCHANGED failed
    /\ UNCHANGED <<now, event, document_id, document_type, source, start_time,
                   analysis_result, result_key, s3, idVars, cliVars>>

HandlerIdle ==
    /\ event = None
    /\ pc = "Idle"
    /\ document_id = None
    /\ document_type = None
    /\ source = None
    /\ start_time = 0
    /\ analysis_result = None
    /\ result_key = <<>>
    /\ s3 = <<>>
    /\ cloudwatch = <<>>
    /\ response = None
    /\ stages = <<>>
    /\ calls = NoCalls
    /\ failed = {}

(***************************************************************************)
(* Concurrent invocations of analyze_document (lambda_handler.py 118-152): *)
(* each reads the one wall clock twice, around its sleep.                  *)
(***************************************************************************)
Callers == 1..NumCalls

IdsIdle ==
    /\ cpc = [i \in Callers |-> "idle"]
    /\ cdoc = [i \in Callers |-> None]
    /\ cstart = [i \in Callers |-> 0]
    /\ cid = [i \in Callers |-> <<>>]

\* line 120: start_time = datetime.utcnow(), then the sleep begins.
CallEnter(i) ==
    /\ cpc[i] = "idle"
    /\ \E d \in DocIds : cdoc' = [cdoc EXCEPT ![i] = Str(d)]
    /\ cstart' = [cstart EXCEPT ![i] = now]
    /\ cpc' = [cpc EXCEPT ![i] = "sleeping"]
    /\ UNCHANGED <<now, cid, handlerVars, cliVars>>

\* lines 129-152: the id is built from the clock as read after the sleep.
CallReturn(i) ==
    /\ cpc[i] = "sleeping"
    /\ \E r \in analyze_document(cdoc[i], Str(<<"contract">>), cstart[i], now) :
          cid' = [cid EXCEPT ![i] = r.analysis_id]
    /\ cpc' = [cpc EXCEPT ![i] = "returned"]
    /\ UNCHANGED <<now, cdoc, cstart, handlerVars, cliVars>>

(***************************************************************************)
(* analyze_cli.py                                                          *)
(***************************************************************************)
\* The JSON a 2xx answer to the POST for `doc` may carry: an object that
\* names the document, or the empty object.
JsonAnswers(doc) ==
    {Dict({<<"document_id", doc>>, <<"status", "success">>}), Dict({})}

\* What requests.post / requests.get, raise_for_status and json() do:
\* answer, or raise a RequestException (a connection failure, an error
\* status), or raise an exception that is no RequestException.
RequestExceptions == {"ConnectionError", "HTTPError"}

HttpOutcomes(doc) ==
    {[kind |-> "ok", json |-> j] : j \in JsonAnswers(doc)}
    \cup {[kind |-> k, json |-> None] : k \in RequestExceptions \cup {"Exception"}}

\* except requests.exceptions.RequestException
Caught(kind) == kind \in RequestExceptions

\* analyze_document and get_stats (lines 27-37, 51-57): the value returned,
\* or the exception that leaves the method.
http_method(outcome) ==
    IF outcome.kind = "ok" THEN [raised |-> FALSE, value |-> outcome.json]
    ELSE IF Caught(outcome.kind) THEN [raised |-> FALSE, value |-> None]
    ELSE [raised |-> TRUE, value |-> None]

\* batch_analyze line 45: if result
Collected(result) == Truthy(result)

Payload(doc, type, t) ==
    [document_id |-> doc, document_type |-> type,
     timestamp |-> isoformat(t), source |-> "cli"]

RECURSIVE SeqsUpTo(_, _)
SeqsUpTo(S, n) ==
    IF n = 0 THEN {<<>>}
    ELSE LET shorter == SeqsUpTo(S, n - 1)
         IN  shorter \cup {Append(q, x) : q \in shorter, x \in S}

BatchFile(ids) == [t |-> "file", ids |-> ids]

\* The parsed command lines: --action is required and one of three.
Args ==
    {[action |-> "analyze", doc_id |-> d, doc_type |-> Str(<<"contract">>), batch_file |-> None] :
        d \in {None, Str(<<>>)} \cup {Str(x) : x \in DocIds}}
    \cup {[action |-> "batch", doc_id |-> None, doc_type |-> Str(<<"contract">>), batch_file |-> f] :
        f \in {None} \cup {BatchFile(q) : q \in SeqsUpTo(DocIds, MaxBatch)}}
    \cup {[action |-> "stats", doc_id |-> d, doc_type |-> Str(<<"contract">>), batch_file |-> None] :
        d \in {None, Str(<<"a">>)}}

\* Only the batch action checks its argument.
MissingRequiredArg_mut(a) == a.action = "batch" /\ a.batch_file = None

\* lines 94 and 102: the argument the selected action requires is missing.
MissingRequiredArg(a) ==
    CASE a.action = "analyze" -> ~Truthy(a.doc_id)
      [] a.action = "batch" -> a.batch_file = None
      [] OTHER -> FALSE

CliIdle ==
    /\ args = None
    /\ mpc = "idle"
    /\ todo = <<>>
    /\ results = <<>>
    /\ posts = <<>>
    /\ gets = 0
    /\ outcomes = <<>>
    /\ stdout = <<>>
    /\ stderr = <<>>
    /\ exit_code = None
    /\ ran = {}

CliInit ==
    /\ args \in Args
    /\ mpc = "start"
    /\ todo = <<>>
    /\ results = <<>>
    /\ posts = <<>>
    /\ gets = 0
    /\ outcomes = <<>>
    /\ stdout = <<>>
    /\ stderr = <<>>
    /\ exit_code = None
    /\ ran = {}

\* lines 93-96, 101-106, 110: the branch of the selected action, and its
\* check of the required argument; batch reads its file.
MainDispatch ==
    /\ mpc = "start"
    /\ ran' = ran \cup {args.action}
    /\ IF MissingRequiredArg(args)
       THEN /\ stderr' = Append(stderr, "required")
            /\ exit_code' = 1
            /\ mpc' = "exited"
            /\ UNCHANGED todo
       ELSE /\ mpc' = args.action
            /\ todo' = IF args.action = "batch" THEN args.batch_file.ids ELSE <<>>
            /\ UNCHANGED <<stderr, exit_code>>
    /\ UNCHANGED <<now, args, results, posts, gets, outcomes, stdout,
                   handlerVars, idVars>>

\* lines 97-99: one POST; an uncaught exception ends the process with a
\* traceback and status 1.
MainAnalyze ==
    /\ mpc = "analyze"
    /\ \E o \in HttpOutcomes(args.doc_id) :
          LET r == http_method(o)
          IN  /\ posts' = Append(posts, Payload(args.doc_id, args.doc_type, now))
              /\ outcomes' = Append(outcomes, [outcome |-> o, ret |-> r])
              /\ stdout' = IF ~r.raised /\ Truthy(r.value)
                           THEN Append(stdout, r.value) ELSE stdout
              /\ stderr' = IF o.kind = "ok" THEN stderr ELSE Append(stderr, o.kind)
              /\ exit_code' = IF r.raised THEN 1 ELSE 0
    /\ mpc' = "exited"
    /\ UNCHANGED <<now, args, todo, results, gets, ran, handlerVars, idVars>>

\* batch_analyze lines 42-46: one iteration of the loop.
BatchStep ==
    /\ mpc = "batch"
    /\ todo # <<>>
    /\ \E o \in HttpOutcomes(Str(Head(todo))) :
          LET r == http_method(o)
          IN  /\ posts' = Append(posts, Payload(Str(Head(todo)), args.doc_type, now))
              /\ outcomes' = Append(outcomes, [outcome |-> o, ret |-> r])
              /\ stdout' = Append(stdout, "Analyzing document")
              /\ stderr' = IF o.kind = "ok" THEN stderr ELSE Append(stderr, o.kind)
              /\ IF r.raised
                 THEN /\ exit_code' = 1
                      /\ mpc' = "exited"
                      /\ UNCHANGED <<results, todo>>
                 ELSE /\ results' = IF Collected(r.value)
                                    THEN Append(results, r.value) ELSE results
                      /\ todo' = Tail(todo)
                      /\ UNCHANGED <<exit_code, mpc>>
    /\ UNCHANGED <<now, args, gets, ran, handlerVars, idVars>>

\* batch_analyze line 47 and main line 108: return and print the results.
BatchDone ==
    /\ mpc = "batch"
    /\ todo = <<>>
    /\ stdout' = Append(stdout, results)
    /\ exit_code' = 0
    /\ mpc' = "exited"
    /\ UNCHANGED <<now, args, todo, results, posts, gets, outcomes, stderr,
                   ran, handlerVars, idVars>>

\* lines 111-113: one GET.
MainStats ==
    /\ mpc = "stats"
    /\ \E o \in HttpOutcomes(None) :
          LET r == http_method(o)
          IN  /\ gets' = gets + 1
              /\ outcomes' = Append(outcomes, [outcome |-> o, ret |-> r])
              /\ stdout' = IF ~r.raised /\ Truthy(r.value)
                           THEN Append(stdout, r.value) ELSE stdout
              /\ stderr' = IF o.kind = "ok" THEN stderr ELSE Append(stderr, o.kind)
              /\ exit_code' = IF r.raised THEN 1 ELSE 0
    /\ mpc' = "exited"
    /\ UNCHANGED <<now, args, todo, results, posts, ran, handlerVars, idVars>>

(***************************************************************************)
(* The specifications.                                                     *)
(***************************************************************************)
Init ==
    /\ now \in 0..1
    /\ HandlerInit
    /\ IdsIdle
    /\ CliIdle

Next ==
    \/ Tick
    \/ ParseRequest
    \/ AnalyzeCall
    \/ AnalyzeReturn
    \/ AnalyzeRaise
    \/ PutObject
    \/ SendMetrics
    \/ Respond
    \/ ErrorPath

Spec == Init /\ [][Next]_vars

InitIds ==
    /\ now \in 0..1
    /\ HandlerIdle
    /\ IdsIdle
    /\ CliIdle

NextIds ==
    \/ Tick
    \/ \E i \in Callers : CallEnter(i)
    \/ \E i \in Callers : CallReturn(i)

SpecIds == InitIds /\ [][NextIds]_vars

InitCLI ==
    /\ now \in 0..1
    /\ HandlerIdle
    /\ IdsIdle
    /\ CliInit

NextCLI ==
    \/ Tick
    \/ MainDispatch
    \/ MainAnalyze
    \/ BatchStep
    \/ BatchDone
    \/ MainStats

SpecCLI == InitCLI /\ [][NextCLI]_vars

(***************************************************************************)
(* The claims.                                                             *)
(***************************************************************************)
Ended == pc \in {"Done", "Raised"}

\* The request carries a JSON object with a non-empty string document_id.
HasDocumentId ==
    /\ event.kind = "object"
    /\ event.object.document_id.t = "str"
    /\ event.object.document_id.s # <<>>

\* The request's body is a JSON object (or defaults to {}) in which
\* document_id is absent or the empty string.
HasNoDocumentId ==
    /\ event.kind \in {"absent", "object"}
    /\ event.object.document_id \in {Absent, Str(<<>>)}

IsPrefix(p, q) == Len(p) <= Len(q) /\ SubSeq(q, 1, Len(p)) = p

\* C1: a request whose body has no document_id, or an empty one, is answered
\* 400 {error: "document_id is required"}, and in that invocation
\* analyze_document and s3.put_object are never called and no metric is
\* emitted.
C1_MissingIdRejected ==
    HasNoDocumentId =>
        /\ calls = NoCalls
        /\ s3 = <<>>
        /\ cloudwatch = <<>>
        /\ pc \in {"Received", "Done"}
        /\ pc = "Done" =>
              response = [statusCode |-> 400,
                          body |-> [error |-> "document_id is required"]]

C1_Witness ==
    /\ event.kind = "object"
    /\ event.object.document_id = Str(<<>>)
    /\ pc = "Done"
    /\ response.statusCode = 400

\* C2: with a non-empty document_id and no collaborator failing, the handler
\* answers 200; the body's document_id is the input, its status is
\* "completed", its analysis_id contains the document_id, and its
\* result_location is s3://{RESULTS_BUCKET}/{key} for the key of the one
\* put_object call, which is analysis/{document_id}/{timestamp}.json.
C2_SuccessResponse ==
    (HasDocumentId /\ Ended /\ failed = {}) =>
        /\ response # None
        /\ response.statusCode = 200
        /\ response.body.document_id = event.object.document_id
        /\ response.body.status = "completed"
        /\ Contains(event.object.document_id.s, response.body.analysis_id)
        /\ calls.put_object = 1
        /\ Len(s3) = 1
        /\ response.body.result_location
             = <<"s3://">> \o RESULTS_BUCKET \o <<"/">> \o s3[1].Key
        /\ \E t \in 0..MaxClock :
              s3[1].Key = <<"analysis/">> \o event.object.document_id.s
                          \o <<"/">> \o isoformat(t) \o <<".json">>

C2_Witness ==
    /\ HasDocumentId
    /\ event.object.document_id = Str(<<"a", "-", "1">>)
    /\ pc = "Done"
    /\ failed = {}
    /\ response.statusCode = 200
    /\ Len(s3) = 1

\* C3: batch_analyze issues one POST per id, in input order, whatever fails,
\* and returns exactly the responses of the requests that succeeded, in
\* input order, whatever their JSON value.
C3_BatchCollectsSuccesses ==
    (args # None /\ args.action = "batch" /\ args.batch_file # None /\ mpc = "exited") =>
        LET ids == args.batch_file.ids
            answered == SelectSeq(outcomes, LAMBDA e : e.outcome.kind = "ok")
        IN  /\ Len(posts) = Len(ids)
            /\ \A k \in 1..Len(ids) : posts[k].document_id = Str(ids[k])
            /\ Len(results) = Len(answered)
            /\ \A k \in 1..Len(answered) : results[k] = answered[k].outcome.json

\* C4: whenever the HTTP call fails, with a RequestException or with any
\* other exception, analyze_document and get_stats return None and no
\* exception reaches the caller.
C4_NeverRaises ==
    \A k \in 1..Len(outcomes) :
        outcomes[k].outcome.kind # "ok" =>
            /\ ~outcomes[k].ret.raised
            /\ outcomes[k].ret.value = None

\* C5: with a non-empty document_id, a failure of the analysis step or of the
\* storage write makes the handler return 500 "Internal server error", never
\* 200; after a failed put_object send_metrics is not called and no
\* result_location is reported.
C5_FailureGives500 ==
    (HasDocumentId /\ failed \cap {"analysis", "storage"} # {}) =>
        /\ Ended =>
              /\ response # None
              /\ response.statusCode = 500
              /\ response.body.error = "Internal server error"
        /\ response # None => response.statusCode # 200
        /\ "storage" \in failed =>
              /\ calls.send_metrics = 0
              /\ \A k \in 1..Len(cloudwatch) : cloudwatch[k].by # "send_metrics"
              /\ response # None => "result_location" \notin DOMAIN response.body

\* C6: a failure of the metrics backend never changes the outcome: failing
\* inside send_metrics the handler still answers 200, and failing in the
\* AnalysisErrors emission the handler still answers 500.
C6_MetricsFailureHarmless ==
    Ended =>
        /\ "metrics" \in failed =>
              (response # None /\ response.statusCode = 200)
        /\ "error_metric" \in failed =>
              (response # None /\ response.statusCode = 500)

SuccessPath ==
    <<"Received", "Validated", "Analyzed", "Persisted", "MetricsEmitted", "Responded">>

\* C7: the stages of an invocation follow Received, Validated, Analyzed,
\* Persisted, MetricsEmitted, Responded, left only for Rejected or Failed;
\* put_object is called only after the analysis returned, send_metrics only
\* after the object was stored, 200 is answered only after all three; no
\* collaborator is called twice; and every invocation ends in Responded(200),
\* Rejected(400) or Failed(500).
C7_StageOrder ==
    /\ \/ IsPrefix(stages, SuccessPath)
       \/ stages = <<"Received", "Rejected">>
       \/ /\ stages[Len(stages)] = "Failed"
          /\ Len(stages) <= 5
          /\ IsPrefix(SubSeq(stages, 1, Len(stages) - 1), SuccessPath)
    /\ calls.analyze <= 1 /\ calls.put_object <= 1 /\ calls.send_metrics <= 1
    /\ calls.put_object > 0 => analysis_result # None
    /\ calls.send_metrics > 0 => Len(s3) = 1
    /\ (response # None /\ response.statusCode = 200) =>
          (analysis_result # None /\ Len(s3) = 1 /\ calls.send_metrics = 1)
    /\ Ended =>
          /\ response # None
          /\ \/ response.statusCode = 200 /\ stages[Len(stages)] = "Responded"
             \/ response.statusCode = 400 /\ stages[Len(stages)] = "Rejected"
             \/ response.statusCode = 500 /\ stages[Len(stages)] = "Failed"

\* C8: any two invocations of analyze_document, concurrent ones for the same
\* document within one epoch second included, produce different analysis_ids.
C8_UniqueIds ==
    \A i, j \in Callers :
        (i # j /\ cpc[i] = "returned" /\ cpc[j] = "returned") => cid[i] # cid[j]

\* C9: every result analyze_document produces has
\* 0 <= latency_p50 <= latency_p95 <= latency_p99 and non-negative
\* docs_per_hour and docs_per_day.
C9_LatencyOrder ==
    analysis_result # None =>
        LET m == analysis_result.metrics
        IN  /\ 0 <= m.latency_p50
            /\ m.latency_p50 <= m.latency_p95
            /\ m.latency_p95 <= m.latency_p99
            /\ m.docs_per_hour >= 0
            /\ m.docs_per_day >= 0

C9_Witness ==
    /\ analysis_result # None
    /\ analysis_result.metrics.latency_p50 = 300
    /\ analysis_result.metrics.latency_p95 = 400
    /\ analysis_result.metrics.latency_p99 = 900

NetworkFailure(kind) == kind \in {"ConnectionError", "HTTPError"}

\* C10: main runs exactly the selected action; analyze without --doc-id and
\* batch without --batch-file exit non-zero with no HTTP request issued; with
\* the arguments present, a network failure during analyze or stats ends the
\* process with status zero and nothing on standard output.
C10_MainValidation ==
    /\ ran \subseteq {args.action}
    /\ mpc # "start" => ran = {args.action}
    /\ args.action = "analyze" => (gets = 0 /\ Len(posts) <= 1)
    /\ args.action = "batch" => gets = 0
    /\ args.action = "stats" => (posts = <<>> /\ gets <= 1)
    /\ (args.action = "analyze" /\ args.doc_id = None) =>
          /\ posts = <<>> /\ gets = 0
          /\ mpc = "exited" => exit_code # 0
    /\ (args.action = "batch" /\ args.batch_file = None) =>
          /\ posts = <<>> /\ gets = 0
          /\ mpc = "exited" => exit_code # 0
    /\ (/\ args.action \in {"analyze", "stats"}
        /\ mpc = "exited"
        /\ Len(outcomes) = 1
        /\ NetworkFailure(outcomes[1].outcome.kind)) =>
          (exit_code = 0 /\ stdout = <<>>)

C10_Witness ==
    /\ args.action = "analyze"
    /\ args.doc_id # None
    /\ mpc = "exited"
    /\ Len(posts) = 1
    /\ Len(outcomes) = 1
    /\ outcomes[1].outcome.kind = "ConnectionError"
    /\ exit_code = 0
====
